---- MODULE Spec2Model ----
(***************************************************************************)
(* evelink.api: the cached request/response transaction.                   *)
(*                                                                         *)
(* State: the wall clock, the in-memory APICache dictionary, one           *)
(* CacheContextManager held by a caller of cache_for, the API object's     *)
(* api_key and last_timestamps.  Two observation variables record what a   *)
(* test with mocks would observe: lastEvent (the operation just run, the   *)
(* puts and transport sends it made, its outcome) and lastPut (the latest  *)
(* put the store received, with the clock value at that moment).  built    *)
(* holds the requests and cache keys made by calls of from_api; threads    *)
(* holds the frames of two threads that share the store.  api_base_url is  *)
(* the base_url of the gateway in use, _has_requests the module global     *)
(* that selects the transport, and commits counts the puts the manager in  *)
(* scope has made (an observation variable).                               *)
(*                                                                         *)
(* Python values:                                                          *)
(*   - str values (cache keys aside) are TLA+ strings; None is "None";     *)
(*   - an optional number (a duration, a timestamp) is a set: {} is None   *)
(*     and {n} is the number n;                                            *)
(*   - the store's dict is a function on the set of its keys; a dict of    *)
(*     request parameters is the sequence of its (name, value) items in    *)
(*     iteration order.                                                    *)
(***************************************************************************)
EXTENDS Integers, Sequences, FiniteSets, TLC

VARIABLES now, cache, pc, ctx, api_key, last_timestamps, lastEvent, lastPut,
          built, threads, api_base_url, _has_requests, commits

vars == <<now, cache, pc, ctx, api_key, last_timestamps, lastEvent, lastPut,
          built, threads, api_base_url, _has_requests, commits>>

(***************************************************************************)
(* Bounds.                                                                 *)
(***************************************************************************)
\* time.time() ranges over 0..MaxTime
MaxTime == 3
\* a caller of cache_for / put chooses durations in -1..MaxDuration
MaxDuration == 2

(***************************************************************************)
(* Python values.                                                          *)
(***************************************************************************)
None == "None"

The(s) == CHOOSE x \in s : TRUE

\* truth value of a str-or-None: None and '' are falsy
Truthy(v) == v # None /\ v # ""

(***************************************************************************)
(* Parameter values, _clean and the request.                               *)
(***************************************************************************)
PyInt(n) == [t |-> "int", items |-> <<n>>, chars |-> <<>>]
PyStr(cs) == [t |-> "str", items |-> <<>>, chars |-> cs]
PyList(s) == [t |-> "list", items |-> s, chars |-> <<>>]

\* str(i) of a one-digit int, as a sequence of characters
DigitChar == <<"1", "2", "3", "4", "5", "6", "7", "8", "9">>

str(v) == IF v.t = "int"
          THEN IF v.items[1] = 0 THEN <<"0">> ELSE <<DigitChar[v.items[1]]>>
          ELSE v.chars

RECURSIVE join(_, _)
join(sep, parts) ==
    IF parts = <<>> THEN <<>>
    ELSE IF Len(parts) = 1 THEN parts[1]
    ELSE parts[1] \o sep \o join(sep, Tail(parts))

\* int(s) of a str of decimal digits
RECURSIVE int_of(_)
int_of(cs) ==
    IF cs = <<>> THEN 0
    ELSE LET c == cs[Len(cs)]
             d == IF c = "0" THEN 0 ELSE CHOOSE n \in 1..9 : DigitChar[n] = c
         IN int_of(SubSeq(cs, 1, Len(cs) - 1)) * 10 + d

int(v) == IF v.t = "int" THEN v ELSE PyInt(int_of(v.chars))

_clean(v) ==
    IF v.t = "list"
    THEN join(<<",">>, [i \in 1..Len(v.items) |-> str(PyInt(v.items[i]))])
    ELSE str(v)

\* the order of str on the parameter names used here (ASCII order)
NameRank == [a |-> 1, b |-> 2, keyID |-> 3, vCode |-> 4]

\* mutant: the pairs are left in the order they are supplied in
sorted_as_given(pairs) == pairs

\* sorted() of a sequence of (name, cleaned value) pairs; the names of a
\* dict's items are distinct, so the order of the names decides
RECURSIVE sorted(_)
sorted(pairs) ==
    IF pairs = <<>> THEN <<>>
    ELSE LET i == CHOOSE i \in 1..Len(pairs) :
                    \A j \in 1..Len(pairs) :
                        NameRank[pairs[i][1]] <= NameRank[pairs[j][1]]
         IN <<pairs[i]>> \o sorted(SubSeq(pairs, 1, i - 1)
                                   \o SubSeq(pairs, i + 1, Len(pairs)))

\* params: the (name, value) pairs in the order the caller's iterator
\* yields them
APIRequest(base_url, path, params) ==
    [base_url |-> base_url,
     path |-> path,
     params |-> sorted([i \in 1..Len(params) |->
                           <<params[i][1], _clean(params[i][2])>>])]

DictSet(d, k, v) == [n \in DOMAIN d \cup {k} |-> IF n = k THEN v ELSE d[n]]

\* params[k] = v on a dict of parameters: an existing item keeps its place,
\* a new one goes last
setitem(params, k, v) ==
    IF \E i \in 1..Len(params) : params[i][1] = k
    THEN [i \in 1..Len(params) |->
             IF params[i][1] = k THEN <<k, v>> ELSE params[i]]
    ELSE Append(params, <<k, v>>)

\* mutant: the api key is not added to the parameters
from_api_no_key(key, base_url, path, params) ==
    APIRequest(base_url, path, params)

\* api_key is <<>> (None) or <<keyID, vCode>>
from_api(key, base_url, path, params) ==
    LET withKey == IF key # <<>>
                   THEN setitem(setitem(params, "keyID", key[1]), "vCode", key[2])
                   ELSE params
    IN APIRequest(base_url, path, withKey)

\* the caller's dict after from_api(api, path, params): "params or {}" is
\* the caller's dict unless that is empty, and the api key is stored into it
from_api_params(key, params) ==
    IF params # <<>> /\ key # <<>>
    THEN setitem(setitem(params, "keyID", key[1]), "vCode", key[2])
    ELSE params

\* '*' * n
stars(n) == [i \in 1..n |-> "*"]

\* the params argument from_api gives to _log.debug
logged_params(request) ==
    [i \in 1..Len(request.params) |->
        IF request.params[i][1] # "vCode" THEN request.params[i]
        ELSE <<"vCode", stars(Len(request.params[i][2]))>>]

CACHE_VERSION == "1"

\* The builtin hash of the tuple: a deterministic function of its argument.
\* It is represented by the argument itself, i.e. taken without collisions.
hash(t) == t

\* mutant: the base_url is made part of the key
_cache_key_with_base_url(request) ==
    <<CACHE_VERSION, hash(<<request.base_url, request.path, request.params>>)>>

\* mutant: the path is left out of the key
_cache_key_no_path(request) == <<CACHE_VERSION, hash(<<request.params>>)>>

_cache_key(request) == <<CACHE_VERSION, hash(<<request.path, request.params>>)>>

DefaultBaseUrl == "api.eveonline.com"

\* urllib.quote_plus of a cleaned value: its letters and digits stand for
\* themselves, the comma of a joined list is escaped
quote_plus(cs) == [i \in 1..Len(cs) |-> IF cs[i] = "," THEN "%2C" ELSE cs[i]]

\* urllib.urlencode of a sequence of (name, value) pairs, as a sequence of
\* tokens: a name is one token, a value one token per character
urlencode(query) ==
    join(<<"&">>, [i \in 1..Len(query) |->
                      <<query[i][1], "=">> \o quote_plus(query[i][2])])

encoded_params(request) == urlencode(request.params)

absolute_url(request) ==
    <<"https://", request.base_url, "/", request.path, ".xml.aspx">>

(***************************************************************************)
(* APICache: the in-memory store.                                          *)
(***************************************************************************)
DictDel(d, k) == [n \in DOMAIN d \ {k} |-> d[n]]

\* mutant: an entry is returned whatever its expiration
APICache_get_forever(c, key, t) ==
    IF key \notin DOMAIN c
    THEN [cache |-> c, value |-> None]
    ELSE [cache |-> c, value |-> c[key].value]

\* mutant: an expired entry is reported absent but left in the dictionary
APICache_get_keep(c, key, t) ==
    IF key \notin DOMAIN c
    THEN [cache |-> c, value |-> None]
    ELSE IF c[key].expiration < t
         THEN [cache |-> c, value |-> None]
         ELSE [cache |-> c, value |-> c[key].value]

\* returns the store after the call and the value returned
APICache_get(c, key, t) ==
    IF key \notin DOMAIN c
    THEN [cache |-> c, value |-> None]
    ELSE IF c[key].expiration < t
         THEN [cache |-> DictDel(c, key), value |-> None]
         ELSE [cache |-> c, value |-> c[key].value]

\* mutant: the duration is stored as if it were the absolute expiry time
APICache_put_absolute(c, key, value, duration, t) ==
    DictSet(c, key, [value |-> value, expiration |-> duration])

APICache_put(c, key, value, duration, t) ==
    DictSet(c, key, [value |-> value, expiration |-> t + duration])

(***************************************************************************)
(* CacheContextManager.                                                    *)
(***************************************************************************)
CacheContextManager(key, initial_value) ==
    [_key |-> key, value |-> initial_value, _old_value |-> initial_value,
     duration |-> {}]

\* returns the store after the lookup and the manager
cache_for(c, key, t) ==
    LET g == APICache_get(c, key, t)
    IN [cache |-> g.cache, ctx |-> CacheContextManager(key, g.value)]

\* mutant: a value without a duration is put with a default duration of 0
sync_default_duration(m, c, t) ==
    IF m._old_value # None
    THEN [ctx |-> m, cache |-> c, puts |-> <<>>]
    ELSE IF m.value = None
         THEN [ctx |-> m, cache |-> c, puts |-> <<>>]
         ELSE LET d == IF m.duration = {} THEN 0 ELSE The(m.duration)
              IN [ctx |-> [m EXCEPT !._old_value = m.value],
                  cache |-> DictSet(c, m._key, [value |-> m.value,
                                                expiration |-> t + d]),
                  puts |-> <<[key |-> m._key, value |-> m.value,
                              duration |-> d]>>]

\* mutant: the hit test is the truth value of the initial value, as in
\* API.get, so an empty cached body counts as a miss
sync_truthy_hit(m, c, t) ==
    IF m._old_value # None /\ m._old_value # ""
    THEN [ctx |-> m, cache |-> c, puts |-> <<>>]
    ELSE IF m.duration = {} \/ m.value = None
         THEN [ctx |-> m, cache |-> c, puts |-> <<>>]
         ELSE [ctx |-> [m EXCEPT !._old_value = m.value],
               cache |-> DictSet(c, m._key, [value |-> m.value,
                                             expiration |-> t + The(m.duration)]),
               puts |-> <<[key |-> m._key, value |-> m.value,
                           duration |-> The(m.duration)]>>]

\* returns the manager and the store after the call, and the puts made
\* mutant: the manager does not record that it has put
sync_unmarked(m, c, t) ==
    IF m._old_value # None
    THEN [ctx |-> m, cache |-> c, puts |-> <<>>]
    ELSE IF m.duration = {} \/ m.value = None
         THEN [ctx |-> m, cache |-> c, puts |-> <<>>]
         ELSE [ctx |-> m,
               cache |-> APICache_put(c, m._key, m.value, The(m.duration), t),
               puts |-> <<[key |-> m._key, value |-> m.value,
                           duration |-> The(m.duration)]>>]

sync(m, c, t) ==
    IF m._old_value # None
    THEN [ctx |-> m, cache |-> c, puts |-> <<>>]
    ELSE IF m.duration = {} \/ m.value = None
         THEN [ctx |-> m, cache |-> c, puts |-> <<>>]
         ELSE [ctx |-> [m EXCEPT !._old_value = m.value],
               cache |-> APICache_put(c, m._key, m.value, The(m.duration), t),
               puts |-> <<[key |-> m._key, value |-> m.value,
                           duration |-> The(m.duration)]>>]

\* mutant: a duration the caller has set is kept
set_duration_keep(m, result) ==
    IF result.timestamp = {} \/ result.expires = {} \/ m.duration # {}
    THEN m
    ELSE [m EXCEPT !.duration = {The(result.expires) - The(result.timestamp)}]

\* mutant: a result without the two times gives the duration 0
set_duration_zero(m, result) ==
    IF result.timestamp = {} \/ result.expires = {}
    THEN [m EXCEPT !.duration = {0}]
    ELSE [m EXCEPT !.duration = {The(result.expires) - The(result.timestamp)}]

\* mutant: a result without the two times clears the duration
set_duration_reset(m, result) ==
    IF result.timestamp = {} \/ result.expires = {}
    THEN [m EXCEPT !.duration = {}]
    ELSE [m EXCEPT !.duration = {The(result.expires) - The(result.timestamp)}]

\* result: an APIResult or an APIError, both with timestamp and expires
set_duration(m, result) ==
    IF result.timestamp = {} \/ result.expires = {}
    THEN m
    ELSE [m EXCEPT !.duration = {The(result.expires) - The(result.timestamp)}]

APIError(code, message, timestamp, expires) ==
    [code |-> code, message |-> message, timestamp |-> timestamp,
     expires |-> expires]

NoError == APIError(None, None, {}, {})

\* the exception classes that occur are APIError, RuntimeError, URLError,
\* ParseError and AttributeError; only the first is a subclass of APIError
\* mutant: every exception is taken for an APIError
issubclass_any(exc_type) == TRUE

issubclass_APIError(exc_type) == exc_type = "APIError"

\* a method's effect x together with the value the method returns
Returning(x, v) ==
    [ctx |-> x.ctx, cache |-> x.cache, puts |-> x.puts, returns |-> v]

\* mutant: only a normal exit syncs
CacheContextManager_exit_normal_only(m, c, t, exc_type, exc_value) ==
    IF exc_type = "None"
    THEN Returning(sync(m, c, t), None)
    ELSE Returning([ctx |-> m, cache |-> c, puts |-> <<>>], None)

\* __exit__(exc_type, exc_value, traceback); exc_type "None" is a normal
\* exit.  Every path returns None.
CacheContextManager_exit(m, c, t, exc_type, exc_value) ==
    IF exc_type = "None"
    THEN Returning(sync(m, c, t), None)
    ELSE IF ~issubclass_APIError(exc_type)
         THEN Returning([ctx |-> m, cache |-> c, puts |-> <<>>], None)
         ELSE Returning(sync(set_duration(m, exc_value), c, t), None)

\* mutant: __exit__ is taken to return a true value, which swallows the
\* exception
Propagated_swallowed(exc_type, x) == "None"

\* the with statement: the exception raised in the body propagates unless
\* __exit__ returned a true value
Propagated(exc_type, x) ==
    IF exc_type # "None" /\ ~Truthy(x.returns) THEN exc_type ELSE "None"

(***************************************************************************)
(* Response bodies.  A body is named by a string; ElementTree_fromstring   *)
(* gives the tree of a well-formed one.  The text of a time element is     *)
(* given by the seconds since the epoch it denotes ({} when the element is *)
(* missing or empty); the text "0001-01-01 00:00:00" denotes a negative    *)
(* number.                                                                 *)
(***************************************************************************)
NoElement == {}

Tree(currentTime, cachedUntil, error, result) ==
    [currentTime |-> currentTime, cachedUntil |-> cachedUntil,
     error |-> error, result |-> result]

ErrorElement(code, text) == {[code |-> code, text |-> text]}

Docs ==
    [test_xml |-> Tree({10}, {11}, NoElement, "rowset"),
     error_xml |-> Tree({10}, {12}, ErrorElement(PyStr(<<"1", "2", "3">>), " Test error message. "), None),
     zero_ttl_xml |-> Tree({10}, {10}, NoElement, "rowset"),
     stale_xml |-> Tree({10}, {9}, NoElement, "rowset"),
     no_expiry_xml |-> Tree({10}, NoElement, NoElement, "rowset"),
     sentinel_error_xml |-> Tree({10}, {-1}, ErrorElement(PyStr(<<"5", "0", "0">>), "Down."), None),
     error_and_result_xml |-> Tree({10}, {11}, ErrorElement(PyStr(<<"1", "2", "4">>), "Both."), "rowset"),
     no_result_xml |-> Tree({10}, {11}, NoElement, None),
     empty_error_xml |-> Tree({10}, {11}, ErrorElement(PyStr(<<"1", "2", "5">>), None), None)]

WellFormed(response) == response \in DOMAIN Docs

ElementTree_fromstring(response) == Docs[response]

\* str.strip on the error texts that occur
strip(text) == IF text = " Test error message. " THEN "Test error message."
               ELSE text

\* mutant: the 0001-01-01 sentinel is not filtered out
parse_ts_raw(v) == {v}

parse_ts(v) == IF v > 0 THEN {v} ELSE {}

get_ts_value(elem, field) ==
    LET val == elem[field]
    IN IF val # {} THEN parse_ts(The(val)) ELSE {}

APIResult(result, timestamp, expires) ==
    [result |-> result, timestamp |-> timestamp, expires |-> expires]

NoResult == APIResult(None, {}, {})

Timestamps(current_time, cached_until) ==
    [current_time |-> current_time, cached_until |-> cached_until]

\* how a call ends: exc_type "None" is a return of `result`;
\* stamps is {} when _set_last_timestamps was not reached
Outcome(exc_type, exc_value, result, stamps) ==
    [exc_type |-> exc_type, exc_value |-> exc_value, result |-> result,
     stamps |-> stamps]

\* mutant: the timestamps are recorded on the success path only
process_response_stamps_on_success(response) ==
    IF ~WellFormed(response)
    THEN Outcome("ParseError", NoError, NoResult, {})
    ELSE LET tree == ElementTree_fromstring(response)
             current_time == get_ts_value(tree, "currentTime")
             expires_time == get_ts_value(tree, "cachedUntil")
             error == tree.error
         IN IF error # NoElement
            THEN IF The(error).text = None
                 THEN Outcome("AttributeError", NoError, NoResult, {})
                 ELSE Outcome("APIError",
                              APIError(The(error).code, strip(The(error).text),
                                       current_time, expires_time),
                              NoResult, {})
            ELSE Outcome("None", NoError,
                         APIResult(tree.result, current_time, expires_time),
                         {Timestamps(current_time, expires_time)})

process_response(response) ==
    IF ~WellFormed(response)
    THEN Outcome("ParseError", NoError, NoResult, {})
    ELSE LET tree == ElementTree_fromstring(response)
             current_time == get_ts_value(tree, "currentTime")
             expires_time == get_ts_value(tree, "cachedUntil")
             stamps == {Timestamps(current_time, expires_time)}
             error == tree.error
         IN IF error # NoElement
            THEN IF The(error).text = None
                 THEN Outcome("AttributeError", NoError, NoResult, stamps)
                 ELSE Outcome("APIError",
                              APIError(The(error).code, strip(The(error).text),
                                       current_time, expires_time),
                              NoResult, stamps)
            ELSE Outcome("None", NoError,
                         APIResult(tree.result, current_time, expires_time),
                         stamps)

(***************************************************************************)
(* The transport.  reply is what the network does when asked: it raises    *)
(* (exc_type "URLError") or answers with a body.                           *)
(***************************************************************************)
Reply(exc_type, body) == [exc_type |-> exc_type, body |-> body]

\* The calls into the two libraries, as a mock records them.  data is the
\* body of the HTTP request and params its query string ({} is None).
\* urllib2.urlopen(url, data=None): a POST of data when data is given, a GET
\* otherwise
urlopen(url, data) ==
    [method |-> IF data # {} THEN "POST" ELSE "GET", url |-> url,
     data |-> data, params |-> {}]

\* requests: session.post(url, data=None, params=None)
session_post(url, data, params) ==
    [method |-> "POST", url |-> url, data |-> data, params |-> params]

\* requests: session.get(url, params=None)
session_get(url, params) ==
    [method |-> "GET", url |-> url, data |-> {}, params |-> params]

urllib2_call(req) ==
    IF req.params # <<>>
    THEN urlopen(absolute_url(req), {encoded_params(req)})
    ELSE urlopen(absolute_url(req), {})

requests_call(req) ==
    IF req.params # <<>>
    THEN session_post(absolute_url(req), {}, {encoded_params(req)})
    ELSE session_get(absolute_url(req), {})

\* mutant: an HTTPError is raised on like a URLError
urllib2_request_raise(req, reply) == reply

\* what urllib2_request gives its caller: the body read from the response
\* or from the HTTPError, or the URLError raised on
urllib2_request(req, reply) ==
    IF reply.exc_type = "HTTPError" THEN Reply("None", reply.body) ELSE reply

\* what requests_request gives its caller: r.content, or the
\* RequestException raised on
requests_request(req, reply) == reply

send_request(request, reply) ==
    IF _has_requests THEN requests_request(request, reply)
    ELSE urllib2_request(request, reply)

\* the call send_request makes for the request, with what the network did
\* (raised: the exception of the library, response: the body it carried)
Sent(request, reply) ==
    LET call == IF _has_requests THEN requests_call(request)
                ELSE urllib2_call(request)
    IN [path |-> request.path, method |-> call.method, url |-> call.url,
        data |-> call.data, params |-> call.params,
        raised |-> reply.exc_type, response |-> reply.body]

(***************************************************************************)
(* API.get                                                                 *)
(***************************************************************************)
\* found: what the store lookup gave; body: the body handed to
\* process_response (None when it was not reached); propagated: the
\* exception the caller gets ("None": the call returns outcome.result);
\* at: the clock when the call ends
Effect(x, sends, outcome, found, body, at) ==
    [cache |-> x.cache, puts |-> x.puts, sends |-> sends, outcome |-> outcome,
     found |-> found, body |-> body,
     propagated |-> Propagated(outcome.exc_type, x), at |-> at]

\* t: the clock when the call starts; dt: the time the transport takes
API_get(c, key, base_url, path, params, reply, t, dt) ==
    LET request == from_api(key, base_url, path, params)
        opened == cache_for(c, _cache_key(request), t)
        response == opened.ctx
        miss == ~Truthy(response.value)
        sends == IF miss THEN <<Sent(request, reply)>> ELSE <<>>
        answer == send_request(request, reply)
        end == IF miss THEN t + dt ELSE t
    IN IF miss /\ answer.exc_type # "None"
       THEN Effect(CacheContextManager_exit(response, opened.cache, end,
                                            answer.exc_type, NoError),
                   sends, Outcome(answer.exc_type, NoError, NoResult, {}),
                   response._old_value, None, end)
       ELSE LET filled == IF miss THEN [response EXCEPT !.value = answer.body]
                          ELSE response
                p == process_response(filled.value)
            IN IF p.exc_type # "None"
               THEN Effect(CacheContextManager_exit(filled, opened.cache, end,
                                                    p.exc_type, p.exc_value),
                           sends, p, response._old_value, filled.value, end)
               ELSE Effect(CacheContextManager_exit(
                               set_duration(filled, p.result), opened.cache,
                               end, "None", NoError),
                           sends, p, response._old_value, filled.value, end)

(***************************************************************************)
(* The inputs the operations are run on.                                   *)
(***************************************************************************)
BarRequest == [path |-> "foo/Bar", params |-> <<<<"a", PyList(<<1, 2, 3>>)>>>>]
ErrorRequest == [path |-> "eve/Error", params |-> <<>>]

Requests == {BarRequest, ErrorRequest}

BaseUrls == {DefaultBaseUrl, "api.testeveonline.com"}

ApiKeys == {<<>>, <<PyInt(1), PyStr(<<"c", "o", "d", "e">>)>>}

\* the paths and parameter dicts from_api is called with: up to two items,
\* in either order, among them values that differ only in type, and the
\* names the api key is sent under
Paths == {"foo/bar", "foo/baz"}

ParamValues == {PyInt(1), PyInt(2), PyStr(<<"1">>), PyList(<<1, 2>>),
                PyStr(<<"1", ",", "2">>)}

ParamItems == ({"a", "b"} \X ParamValues) \cup
              {<<"keyID", PyInt(1)>>, <<"vCode", PyStr(<<"c", "o", "d", "e">>)>>}

ParamDicts == {<<>>} \cup {<<i>> : i \in ParamItems} \cup
              {<<p[1], p[2]>> : p \in {q \in ParamItems \X ParamItems :
                                          q[1][1] # q[2][1]}}

\* the cache keys of the requests, for the API object as configured
KeyOf(r) == _cache_key(from_api(api_key, api_base_url, r.path, r.params))

Keys == {KeyOf(r) : r \in Requests}

Durations == -1..MaxDuration

\* what a caller stores through put or through the slot
PutValues == {"bar", ""}
SlotValues == {"bar", "baz"}

\* the exceptions a with-body is left by
BodyErrors == {APIError(None, None, {0}, {MaxDuration}),
               APIError(None, None, {0}, {}),
               APIError(None, None, {}, {})}

\* how long the transport takes
Delays == {0, 1}

\* what the transport answers
GatewayReplies == {Reply("URLError", None)} \cup
                  {Reply("None", b) : b \in {"test_xml", "error_xml",
                                             "zero_ttl_xml", "no_expiry_xml",
                                             "sentinel_error_xml", "bar"}}

\* every body of Docs, and two that are not XML
DecodeReplies == {Reply("None", b) : b \in DOMAIN Docs \cup {"bar", ""}}

\* what the transport answers to a thread
ThreadReplies == {Reply("URLError", None)} \cup
                 {Reply("None", b) : b \in {"test_xml", "error_xml"}}

Replies == {Reply("URLError", None)} \cup
           {Reply("None", b) : b \in {"test_xml", "error_xml", "zero_ttl_xml",
                                      "no_expiry_xml", "sentinel_error_xml",
                                      "empty_error_xml", "bar", ""}}

(***************************************************************************)
(* Observation.                                                            *)
(***************************************************************************)
NoCtx == CacheContextManager(<<>>, None)

\* op: the operation; pre, post: the manager before and after a close;
\* exc_type/exc_value: the exception raised inside the operation;
\* propagated: the exception its caller gets; value: the str a store
\* lookup gave; body: the body API.get decoded
Event(op, key, pre, post, outcome, propagated, puts, sends, value, body) ==
    [op |-> op, key |-> key, pre |-> pre, post |-> post,
     exc_type |-> outcome.exc_type, exc_value |-> outcome.exc_value,
     result |-> outcome.result, stamps |-> outcome.stamps,
     propagated |-> propagated, puts |-> puts, sends |-> sends,
     value |-> value, body |-> body]

Returned == Outcome("None", NoError, NoResult, {})

Quiet(op) ==
    Event(op, <<>>, NoCtx, NoCtx, Returned, "None", <<>>, <<>>, None, None)

\* the latest put: its arguments, the clock then, the operation that made
\* it, the exception that operation ended with and the base_url of the
\* gateway in use
PutSeen(puts, op, exc_type, exc_value, t) ==
    IF puts = <<>> THEN lastPut
    ELSE {[key |-> puts[1].key, value |-> puts[1].value,
           duration |-> puts[1].duration, at |-> t, by |-> op,
           exc_type |-> exc_type, exc_value |-> exc_value,
           base_url |-> api_base_url]}

\* one call of APIRequest.from_api and API._cache_key, as a test records it:
\* the arguments, the request and its key, the arguments of the _log.debug
\* call, and the caller's dict after the call
Built(key, path, params) ==
    LET request == from_api(key, DefaultBaseUrl, path, params)
    IN [api_key |-> key, path |-> path, params |-> params,
        request |-> request, cache_key |-> _cache_key(request),
        logged |-> <<request.base_url, request.path, logged_params(request)>>,
        params_after |-> from_api_params(key, params)]

(***************************************************************************)
(* Threads.  A thread runs one call of cache.get, cache.put or api.get on  *)
(* the shared store; a step of a thread is one access to the shared dict   *)
(* or clock together with the thread-local code after it.                  *)
(*   op: the call; pc: where the thread is; result: what                   *)
(*   self.cache.get(key) gave ({} is None); live: the dict held an         *)
(*   unexpired entry at that read; early: no other thread had put when the *)
(*   store lookup ended; deleted: what the del statement removed.          *)
(***************************************************************************)
Threads == {"t1", "t2"}

IdleThread ==
    [op |-> "None", pc |-> "idle", key |-> <<>>, result |-> {},
     live |-> FALSE, early |-> FALSE, deleted |-> {}, ctx |-> NoCtx,
     sends |-> <<>>, puts |-> <<>>, exc_type |-> "None", returns |-> None]

\* dict.get(key)
dict_get(c, key) == IF key \in DOMAIN c THEN {c[key]} ELSE {}

\* the thread after APICache.get returned value: cache.get is over; in
\* api.get the manager is made and the with-body entered
Looked(th, value, early) ==
    IF th.op = "get"
    THEN [th EXCEPT !.pc = "done", !.returns = value]
    ELSE [th EXCEPT !.pc = IF Truthy(value) THEN "close" ELSE "send",
                    !.ctx = CacheContextManager(th.key, value),
                    !.early = early]

(***************************************************************************)
(* The state machine.                                                      *)
(***************************************************************************)
Init ==
    /\ now = 0
    /\ cache = [k \in {} |-> None]
    /\ pc = "idle"
    /\ ctx = NoCtx
    /\ api_key \in ApiKeys
    /\ last_timestamps = Timestamps({0}, {0})
    /\ lastEvent = Quiet("init")
    /\ lastPut = {}
    /\ built = <<>>
    /\ threads = [t \in Threads |-> IdleThread]
    /\ api_base_url \in BaseUrls
    /\ _has_requests \in BOOLEAN
    /\ commits = 0

\* time passes
Tick ==
    /\ now < MaxTime
    /\ now' = now + 1
    /\ lastEvent' = Quiet("tick")
    /\ UNCHANGED <<built, threads, cache, pc, ctx, api_key, api_base_url,
                   _has_requests, commits, last_timestamps, lastPut>>

\* the caller goes on with a gateway whose base_url is b and whose cache is
\* the same store
UseGateway(b) ==
    /\ pc # "open"
    /\ api_base_url # b
    /\ api_base_url' = b
    /\ lastEvent' = Quiet("gateway")
    /\ UNCHANGED <<built, threads, now, cache, pc, ctx, api_key,
                   _has_requests, commits, last_timestamps, lastPut>>

\* cache.put(key, value, duration)
Put(key, value, duration) ==
    /\ pc # "open"
    /\ cache' = APICache_put(cache, key, value, duration, now)
    /\ LET puts == <<[key |-> key, value |-> value, duration |-> duration]>>
       IN /\ lastEvent' = Event("put", key, NoCtx, NoCtx, Returned, "None",
                                puts, <<>>, None, None)
          /\ lastPut' = PutSeen(puts, "put", "None", NoError, now)
    /\ UNCHANGED <<built, threads, now, pc, ctx, api_key, api_base_url,
                   _has_requests, commits, last_timestamps>>

\* cache.get(key)
Get(key) ==
    /\ pc # "open"
    /\ \E g \in {APICache_get(cache, key, now)} :
          /\ cache' = g.cache
          /\ lastEvent' = Event("get", key, NoCtx, NoCtx, Returned, "None",
                                <<>>, <<>>, g.value, None)
    /\ UNCHANGED <<built, threads, now, pc, ctx, api_key, api_base_url,
                   _has_requests, commits, last_timestamps, lastPut>>

\* with cache.cache_for(key) as slot:
CacheFor(key) ==
    /\ pc # "open"
    /\ \E o \in {cache_for(cache, key, now)} :
          /\ cache' = o.cache
          /\ ctx' = o.ctx
          /\ lastEvent' = Event("cache_for", key, NoCtx, NoCtx, Returned,
                                "None", <<>>, <<>>, o.ctx.value, None)
    /\ pc' = "open"
    /\ commits' = 0
    /\ UNCHANGED <<built, threads, now, api_key, api_base_url, _has_requests,
                   last_timestamps, lastPut>>

\* slot.value = value
SetValue(value) ==
    /\ pc = "open"
    /\ ctx' = [ctx EXCEPT !.value = value]
    /\ lastEvent' = Quiet("set")
    /\ UNCHANGED <<built, threads, now, cache, pc, api_key, api_base_url,
                   _has_requests, commits, last_timestamps, lastPut>>

\* slot.duration = duration
SetDuration(duration) ==
    /\ pc = "open"
    /\ ctx' = [ctx EXCEPT !.duration = {duration}]
    /\ lastEvent' = Quiet("set")
    /\ UNCHANGED <<built, threads, now, cache, pc, api_key, api_base_url,
                   _has_requests, commits, last_timestamps, lastPut>>

\* the with-body ends: normally (exc_type "None") or by raising; the
\* manager goes out of scope (lastEvent keeps it as it was before and after)
Exit(exc_type, exc_value) ==
    /\ pc = "open"
    /\ \E x \in {CacheContextManager_exit(ctx, cache, now, exc_type, exc_value)} :
          /\ cache' = x.cache
          /\ lastEvent' = Event("exit", ctx._key, ctx, x.ctx,
                                Outcome(exc_type, exc_value, NoResult, {}),
                                Propagated(exc_type, x), x.puts, <<>>, None,
                                None)
          /\ lastPut' = PutSeen(x.puts, "exit", exc_type, exc_value, now)
    /\ pc' = "idle"
    /\ ctx' = NoCtx
    /\ commits' = 0
    /\ UNCHANGED <<built, threads, now, api_key, api_base_url, _has_requests,
                   last_timestamps>>

ExitNormal == Exit("None", NoError)

\* the caller calls slot.sync() on the manager it holds
Sync ==
    /\ pc = "open"
    /\ \E x \in {sync(ctx, cache, now)} :
          /\ cache' = x.cache
          /\ ctx' = x.ctx
          /\ lastEvent' = Event("sync", ctx._key, ctx, x.ctx, Returned, "None",
                                x.puts, <<>>, None, None)
          /\ lastPut' = PutSeen(x.puts, "sync", "None", NoError, now)
          /\ commits' = commits + Len(x.puts)
    /\ UNCHANGED <<built, threads, now, pc, api_key, api_base_url,
                   _has_requests, last_timestamps>>

\* a with-body on the manager ends and the caller keeps the manager
ExitKept(exc_type, exc_value) ==
    /\ pc = "open"
    /\ \E x \in {CacheContextManager_exit(ctx, cache, now, exc_type, exc_value)} :
          /\ cache' = x.cache
          /\ ctx' = x.ctx
          /\ lastEvent' = Event("exit", ctx._key, ctx, x.ctx,
                                Outcome(exc_type, exc_value, NoResult, {}),
                                Propagated(exc_type, x), x.puts, <<>>, None,
                                None)
          /\ lastPut' = PutSeen(x.puts, "exit", exc_type, exc_value, now)
          /\ commits' = commits + Len(x.puts)
    /\ UNCHANGED <<built, threads, now, pc, api_key, api_base_url,
                   _has_requests, last_timestamps>>

ExitAPIError == \E e \in BodyErrors : Exit("APIError", e)

ExitOther == Exit("RuntimeError", NoError)

\* api.get(path, params), the network answering with reply after dt
ApiGet(r, reply, dt) ==
    /\ pc # "open"
    /\ \E e \in {API_get(cache, api_key, api_base_url, r.path, r.params,
                         reply, now, dt)} :
          /\ e.at <= MaxTime
          /\ now' = e.at
          /\ cache' = e.cache
          /\ last_timestamps' = IF e.outcome.stamps = {} THEN last_timestamps
                                ELSE The(e.outcome.stamps)
          /\ lastEvent' = Event("API.get", KeyOf(r), NoCtx, NoCtx, e.outcome,
                                e.propagated, e.puts, e.sends, e.found, e.body)
          /\ lastPut' = PutSeen(e.puts, "API.get", e.outcome.exc_type,
                                e.outcome.exc_value, e.at)
    /\ UNCHANGED <<built, threads, pc, ctx, api_key, api_base_url,
                   _has_requests, commits>>

\* a test calls APIRequest.from_api and API._cache_key on a gateway whose
\* api_key is key, twice in all
FromApi(key, path, params) ==
    /\ Len(built) < 2
    /\ built' = Append(built, Built(key, path, params))
    /\ UNCHANGED <<now, cache, pc, ctx, api_key, api_base_url, _has_requests,
                   commits, last_timestamps, lastEvent,
                   lastPut, threads>>

NoPutYet(t) == \A u \in Threads \ {t} : threads[u].puts = <<>>

\* thread t calls cache.get(key) (op "get") or api.get('eve/Error') (op
\* "API.get", which gets to the store through cache_for) and runs
\* result = self.cache.get(key); if not result: return None
GetRead(t, op) ==
    /\ threads[t].pc = "idle"
    /\ \E key \in {KeyOf(ErrorRequest)} :
        \E result \in {dict_get(cache, key)} :
        \E th \in {[IdleThread EXCEPT
                        !.op = op, !.key = key, !.result = result,
                        !.live = (result # {} /\ ~(The(result).expiration < now))]} :
           threads' = [threads EXCEPT ![t] =
                          IF result = {} THEN Looked(th, None, NoPutYet(t))
                          ELSE [th EXCEPT !.pc = "check"]]
    /\ UNCHANGED <<now, cache, pc, ctx, api_key, api_base_url, _has_requests,
                   commits, last_timestamps, lastEvent,
                   lastPut, built>>

\* value, expiration = result; if expiration < time.time(): ... return value
GetCheck(t) ==
    /\ threads[t].pc = "check"
    /\ threads' = [threads EXCEPT ![t] =
                      IF The(@.result).expiration < now
                      THEN [@ EXCEPT !.pc = "del"]
                      ELSE Looked(@, The(@.result).value, NoPutYet(t))]
    /\ UNCHANGED <<now, cache, pc, ctx, api_key, api_base_url, _has_requests,
                   commits, last_timestamps, lastEvent,
                   lastPut, built>>

\* del self.cache[key]; return None.  del raises KeyError when the dict has
\* no such key; nothing in cache_for or api.get catches it.
GetDel(t) ==
    /\ threads[t].pc = "del"
    /\ IF threads[t].key \in DOMAIN cache
       THEN /\ cache' = DictDel(cache, threads[t].key)
            /\ threads' = [threads EXCEPT ![t] =
                              Looked([@ EXCEPT !.deleted =
                                                   {cache[threads[t].key]}],
                                     None, NoPutYet(t))]
       ELSE /\ cache' = cache
            /\ threads' = [threads EXCEPT ![t] =
                              [@ EXCEPT !.pc = "done", !.exc_type = "KeyError",
                                        !.early = NoPutYet(t)]]
    /\ UNCHANGED <<now, pc, ctx, api_key, api_base_url, _has_requests,
                   commits, last_timestamps, lastEvent, lastPut,
                   built>>

\* response.value = self.send_request(request): the transport raises, which
\* ends the with-body, or answers with a body
Send(t, reply) ==
    /\ threads[t].pc = "send"
    /\ \E request \in {from_api(api_key, api_base_url, ErrorRequest.path,
                                 ErrorRequest.params)} :
        \E answer \in {send_request(request, reply)} :
           IF answer.exc_type # "None"
           THEN \E x \in {CacheContextManager_exit(threads[t].ctx, cache, now,
                                                   answer.exc_type, NoError)} :
                   /\ cache' = x.cache
                   /\ threads' = [threads EXCEPT ![t] =
                                     [@ EXCEPT !.pc = "done", !.ctx = x.ctx,
                                               !.sends = <<Sent(request, reply)>>,
                                               !.puts = x.puts,
                                               !.exc_type =
                                                   Propagated(answer.exc_type, x)]]
           ELSE /\ cache' = cache
                /\ threads' = [threads EXCEPT ![t] =
                                  [@ EXCEPT !.pc = "close",
                                            !.ctx.value = answer.body,
                                            !.sends = <<Sent(request, reply)>>]]
    /\ UNCHANGED <<now, pc, ctx, api_key, api_base_url, _has_requests,
                   commits, last_timestamps, lastEvent, lastPut,
                   built>>

\* result = self.process_response(response.value);
\* response.set_duration(result); the with statement ends and __exit__ runs
Close(t) ==
    /\ threads[t].pc = "close"
    /\ \E p \in {process_response(threads[t].ctx.value)} :
        \E x \in {IF p.exc_type # "None"
                  THEN CacheContextManager_exit(threads[t].ctx, cache, now,
                                                p.exc_type, p.exc_value)
                  ELSE CacheContextManager_exit(
                           set_duration(threads[t].ctx, p.result), cache, now,
                           "None", NoError)} :
           /\ cache' = x.cache
           /\ last_timestamps' = IF p.stamps = {} THEN last_timestamps
                                 ELSE The(p.stamps)
           /\ lastPut' = PutSeen(x.puts, t, p.exc_type, p.exc_value, now)
           /\ threads' = [threads EXCEPT ![t] =
                             [@ EXCEPT !.pc = "done", !.ctx = x.ctx,
                                       !.puts = x.puts,
                                       !.exc_type = Propagated(p.exc_type, x)]]
    /\ UNCHANGED <<now, pc, ctx, api_key, api_base_url, _has_requests,
                   commits, lastEvent, built>>

\* thread t calls cache.put(key, value, duration)
ThreadPut(t, value, duration) ==
    /\ threads[t].pc = "idle"
    /\ \E key \in {KeyOf(ErrorRequest)} :
        \E puts \in {<<[key |-> key, value |-> value, duration |-> duration]>>} :
           /\ cache' = APICache_put(cache, key, value, duration, now)
           /\ lastPut' = PutSeen(puts, t, "None", NoError, now)
           /\ threads' = [threads EXCEPT ![t] =
                             [IdleThread EXCEPT !.op = "put", !.pc = "done",
                                                !.key = key, !.puts = puts]]
    /\ UNCHANGED <<now, pc, ctx, api_key, api_base_url, _has_requests,
                   commits, last_timestamps, lastEvent, built>>

Next ==
    \/ Tick
    \/ \E k \in Keys, v \in PutValues, d \in Durations : Put(k, v, d)
    \/ \E k \in Keys : Get(k)
    \/ \E k \in Keys : CacheFor(k)
    \/ \E v \in SlotValues : SetValue(v)
    \/ \E d \in Durations : SetDuration(d)
    \/ ExitNormal
    \/ ExitAPIError
    \/ ExitOther
    \/ \E r \in Requests, reply \in Replies, dt \in Delays : ApiGet(r, reply, dt)

Spec == Init /\ [][Next]_vars

(***************************************************************************)
(* The store and the transaction on their own: one key, no gateway.        *)
(***************************************************************************)
\* as test_api.py sets the gateway up: no key, the default base_url, urllib2
InitNoKey ==
    Init /\ api_key = <<>> /\ api_base_url = DefaultBaseUrl /\ ~_has_requests

NextCache ==
    \/ Tick
    \/ \E v \in PutValues, d \in Durations : Put(KeyOf(ErrorRequest), v, d)
    \/ Get(KeyOf(ErrorRequest))
    \/ CacheFor(KeyOf(ErrorRequest))
    \/ \E v \in SlotValues : SetValue(v)
    \/ \E d \in Durations : SetDuration(d)
    \/ ExitNormal
    \/ ExitAPIError
    \/ ExitOther

SpecCache == InitNoKey /\ [][NextCache]_vars

(***************************************************************************)
(* The gateway over a store that callers also put into directly.           *)
(***************************************************************************)
NextApi ==
    \/ Tick
    \/ \E v \in PutValues, d \in Durations : Put(KeyOf(ErrorRequest), v, d)
    \/ \E r \in Requests, reply \in GatewayReplies, dt \in Delays :
          ApiGet(r, reply, dt)

SpecApi == InitNoKey /\ [][NextApi]_vars

(***************************************************************************)
(* The gateway alone, the network answering with every kind of body.       *)
(***************************************************************************)
NextDecode ==
    \/ Tick
    \/ \E r \in Requests, reply \in DecodeReplies, dt \in Delays :
          ApiGet(r, reply, dt)

SpecDecode == InitNoKey /\ [][NextDecode]_vars

(***************************************************************************)
(* Requests and their cache keys: two calls of from_api.                   *)
(***************************************************************************)
NextKey ==
    \E key \in ApiKeys, path \in Paths, params \in ParamDicts :
        FromApi(key, path, params)

SpecKey == InitNoKey /\ [][NextKey]_vars

(***************************************************************************)
(* Two threads on one store.  Before the threads start, time passes and    *)
(* the store is put into; then each thread runs one call, its steps        *)
(* interleaved with those of the other and with the clock.                 *)
(***************************************************************************)
NextThreads ==
    \/ Tick
    \/ /\ \A t \in Threads : threads[t].pc = "idle"
       /\ \E d \in Durations : Put(KeyOf(ErrorRequest), "bar", d)
    \/ \E t \in Threads, op \in {"get", "API.get"} : GetRead(t, op)
    \/ \E t \in Threads : GetCheck(t)
    \/ \E t \in Threads : GetDel(t)
    \/ \E t \in Threads, reply \in ThreadReplies : Send(t, reply)
    \/ \E t \in Threads : Close(t)
    \/ \E t \in Threads, d \in Durations : ThreadPut(t, "baz", d)

SpecThreads == InitNoKey /\ [][NextThreads]_vars

(***************************************************************************)
(* Properties.                                                             *)
(***************************************************************************)
PutOf(key, value, duration) ==
    [key |-> key, value |-> value, duration |-> duration]

\* the transaction just closed had been opened on a key with no live entry
ClosedOnMiss == lastEvent.op = "exit" /\ lastEvent.pre._old_value = None

\* what a store lookup made now would return
Lookup(key) == APICache_get(cache, key, now).value

\* C1: no partial commits.  When a transaction opened on a key with no live
\* entry is closed on a path that runs sync (a normal exit, or an APIError)
\* and the manager then holds a value but no duration, or a duration but no
\* value, sync makes no put and a lookup of the key returns None.
C1_NoPartialCommit ==
    ( /\ ClosedOnMiss
      /\ lastEvent.exc_type \in {"None", "APIError"}
      /\ (lastEvent.post.value = None) # (lastEvent.post.duration = {}) )
    => /\ lastEvent.puts = <<>>
       /\ Lookup(lastEvent.key) = None

C1_Witness ==
    /\ ClosedOnMiss
    /\ lastEvent.exc_type = "None"
    /\ lastEvent.post.value = "baz"
    /\ lastEvent.post.duration = {}
    /\ lastEvent.puts = <<>>

\* C2: a hit skips the transport.  If the store lookup of API.get found an
\* entry (whatever its body), the call sends nothing and its outcome is that
\* of decoding the stored body.
C2_HitSkipsTransport ==
    (lastEvent.op = "API.get" /\ lastEvent.value # None)
    => /\ lastEvent.sends = <<>>
       /\ lastEvent.body = lastEvent.value

\* C3: the error's own duration governs replay.
\* (a) On a miss answered by an error envelope with currentTime T0 and
\*     cachedUntil T0 + D, D > 0, API.get raises APIError and puts the raw
\*     body with duration D.
C3_ErrorCommitted ==
    ( /\ lastEvent.op = "API.get"
      /\ lastEvent.value = None
      /\ lastEvent.body \in DOMAIN Docs
      /\ LET tree == Docs[lastEvent.body]
         IN /\ tree.error # NoElement
            /\ The(tree.error).text # None
            /\ tree.currentTime # {} /\ tree.cachedUntil # {}
            /\ The(tree.currentTime) > 0
            /\ The(tree.cachedUntil) > The(tree.currentTime) )
    => /\ lastEvent.propagated = "APIError"
       /\ lastEvent.exc_value.timestamp = Docs[lastEvent.body].currentTime
       /\ lastEvent.exc_value.expires = Docs[lastEvent.body].cachedUntil
       /\ lastEvent.puts =
            <<PutOf(lastEvent.key, lastEvent.body,
                    The(Docs[lastEvent.body].cachedUntil)
                      - The(Docs[lastEvent.body].currentTime))>>

\* the latest put is the commit of a body by an API.get that raised APIError
ErrorCommit(c) ==
    /\ lastPut = {c}
    /\ c.by = "API.get"
    /\ c.exc_type = "APIError"

\* (b) Every API.get for the same key that starts less than D seconds after
\*     that commit raises the same APIError and sends nothing.
C3_ErrorReplayed ==
    \A c \in lastPut :
        ( /\ ErrorCommit(c)
          /\ c.duration > 0
          /\ lastEvent'.op = "API.get"
          /\ lastEvent'.key = c.key
          /\ now < c.at + c.duration )
        => /\ lastEvent'.sends = <<>>
           /\ lastEvent'.propagated = "APIError"
           /\ lastEvent'.exc_value = c.exc_value

C3_ErrorDurationGovernsReplay ==
    [][C3_ErrorCommitted' /\ C3_ErrorReplayed]_vars

\* an API.get replayed the committed error one second after the commit
C3_Witness ==
    /\ lastEvent.op = "API.get"
    /\ lastEvent.sends = <<>>
    /\ lastEvent.propagated = "APIError"
    /\ \E c \in lastPut : /\ ErrorCommit(c)
                          /\ c.key = lastEvent.key
                          /\ c.duration = 2
                          /\ now = c.at + 1
                          /\ lastEvent.exc_value = c.exc_value

\* C4: no commit on an exception that is not an APIError.  Closing the
\* transaction by such an exception makes no put and leaves the store as it
\* was, whatever the slot holds, and the exception propagates.
C4_NoCommitOnOtherError ==
    [][(lastEvent'.op = "exit" /\ lastEvent'.exc_type \notin {"None", "APIError"})
       => /\ lastEvent'.puts = <<>>
          /\ cache' = cache
          /\ lastPut' = lastPut
          /\ lastEvent'.propagated = lastEvent'.exc_type]_vars

C4_Witness ==
    /\ ClosedOnMiss
    /\ lastEvent.exc_type = "RuntimeError"
    /\ lastEvent.propagated = "RuntimeError"
    /\ lastEvent.pre.value = "bar"
    /\ lastEvent.pre.duration = {2}
    /\ lastEvent.key \notin DOMAIN cache

\* C5: commit on normal exit.
\* (a) A transaction opened on a key with no live entry, in which the caller
\*     set value v and duration d and which exits normally, puts (key, v, d).
C5_Committed ==
    ( /\ ClosedOnMiss
      /\ lastEvent.exc_type = "None"
      /\ lastEvent.pre.value # None
      /\ lastEvent.pre.duration # {} )
    => lastEvent.puts = <<PutOf(lastEvent.key, lastEvent.pre.value,
                                The(lastEvent.pre.duration))>>

\* (b) A store get of that key made less than d seconds after the commit
\*     (d > 0) returns v.
C5_ReadBack ==
    \A c \in lastPut :
        ( /\ c.by = "exit" /\ c.exc_type = "None"
          /\ c.duration > 0
          /\ lastEvent'.op = "get"
          /\ lastEvent'.key = c.key
          /\ now' < c.at + c.duration )
        => lastEvent'.value = c.value

C5_CommitOnNormalExit == [][C5_Committed' /\ C5_ReadBack]_vars

\* a get one second after a commit with duration 2 returned the value
C5_Witness ==
    /\ lastEvent.op = "get"
    /\ lastEvent.value = "bar"
    /\ \E c \in lastPut : /\ c.by = "exit" /\ c.exc_type = "None"
                          /\ c.key = lastEvent.key
                          /\ c.value = "bar"
                          /\ c.duration = 2
                          /\ now = c.at + 1

\* C6: a hit is never overwritten.  Closing a transaction whose store lookup
\* had returned a value makes no put on any exit path, so the store is as it
\* was, whatever the caller assigned to the slot.
C6_HitNeverOverwritten ==
    [][(lastEvent'.op = "exit" /\ lastEvent'.pre._old_value # None)
       => /\ lastEvent'.puts = <<>>
          /\ cache' = cache]_vars

C6_Witness ==
    /\ lastEvent.op = "exit"
    /\ lastEvent.pre._old_value = ""
    /\ lastEvent.pre.value = "baz"
    /\ lastEvent.pre.duration = {2}
    /\ lastEvent.exc_type = "None"
    /\ cache[lastEvent.key].value = ""

\* C7: an APIError with timestamp and expires commits under its own
\* duration.  If the body set a value and is left by such an APIError, the
\* value is put with duration expires - timestamp, whatever duration the
\* caller had set, and the APIError propagates.
C7_APIErrorCommit ==
    ( /\ ClosedOnMiss
      /\ lastEvent.exc_type = "APIError"
      /\ lastEvent.exc_value.timestamp # {}
      /\ lastEvent.exc_value.expires # {}
      /\ lastEvent.pre.value # None )
    => /\ lastEvent.puts =
            <<PutOf(lastEvent.key, lastEvent.pre.value,
                    The(lastEvent.exc_value.expires)
                      - The(lastEvent.exc_value.timestamp))>>
       /\ lastEvent.propagated = "APIError"

\* the caller had set duration -1; the error says 0 to MaxDuration
C7_Witness ==
    /\ ClosedOnMiss
    /\ lastEvent.exc_type = "APIError"
    /\ lastEvent.exc_value.timestamp = {0}
    /\ lastEvent.exc_value.expires = {MaxDuration}
    /\ lastEvent.pre.value = "bar"
    /\ lastEvent.pre.duration = {-1}
    /\ Lookup(lastEvent.key) = "bar"

\* a time element that is missing, empty or the 0001-01-01 sentinel
AbsentTime(text) == text = {} \/ The(text) <= 0

\* C8: TTL derivation.  Whatever API.get puts is the body it decoded, with
\* duration cachedUntil - currentTime of that body; when either time is
\* absent nothing is put.
C8_TtlDerivation ==
    (lastEvent.op = "API.get" /\ lastEvent.puts # <<>>)
    => /\ lastEvent.body \in DOMAIN Docs
       /\ LET tree == Docs[lastEvent.body]
          IN /\ ~AbsentTime(tree.currentTime)
             /\ ~AbsentTime(tree.cachedUntil)
             /\ lastEvent.puts =
                  <<PutOf(lastEvent.key, lastEvent.body,
                          The(tree.cachedUntil) - The(tree.currentTime))>>

\* an error envelope and an envelope with cachedUntil = currentTime are
\* both put under their own duration
C8_Witness ==
    /\ lastEvent.op = "API.get"
    /\ lastEvent.body = "zero_ttl_xml"
    /\ lastEvent.puts = <<PutOf(lastEvent.key, "zero_ttl_xml", 0)>>

\* C9: expiry eviction.  After put(k, v, d) with d < 0, get(k) returns None
\* and leaves no entry for k in the store.
C9_ExpiryEviction ==
    [][\A c \in lastPut :
        ( /\ c.by = "put"
          /\ c.duration < 0
          /\ lastEvent'.op = "get"
          /\ lastEvent'.key = c.key )
        => /\ lastEvent'.value = None
           /\ c.key \notin DOMAIN cache']_vars

\* the get followed the put at the same clock value and removed the entry
C9_Witness ==
    /\ lastEvent.op = "get"
    /\ lastEvent.value = None
    /\ \E c \in lastPut : /\ c.by = "put"
                          /\ c.key = lastEvent.key
                          /\ c.duration = -1
                          /\ c.at = now
    /\ lastEvent.key \notin DOMAIN cache

\* C10: a duration <= 0 is already expired.  After put(k, v, d) with d <= 0,
\* get(k) at the same clock value or later returns None.
C10_NonPositiveTtlExpired ==
    [][\A c \in lastPut :
        ( /\ c.by = "put"
          /\ c.duration <= 0
          /\ lastEvent'.op = "get"
          /\ lastEvent'.key = c.key )
        => lastEvent'.value = None]_vars

\* C11: lazy expiry on read.  A get of a key whose entry has expiration E,
\* made when the clock reads now, returns the stored value and keeps the
\* entry if now < E; if now >= E it returns None and the entry is gone
\* from the store.
C11_LazyExpiryOnRead ==
    [][(lastEvent'.op = "get" /\ lastEvent'.key \in DOMAIN cache)
       => LET entry == cache[lastEvent'.key]
          IN IF now < entry.expiration
             THEN /\ lastEvent'.value = entry.value
                  /\ cache' = cache
             ELSE /\ lastEvent'.value = None
                  /\ lastEvent'.key \notin DOMAIN cache']_vars

\* the items of a dict of parameters, whatever their order
Items(params) == {params[i] : i \in 1..Len(params)}

\* both calls of from_api have been made
BothBuilt == Len(built) = 2

\* C12: key determinism.  Two calls of from_api on the same gateway with the
\* same path and with parameter dicts holding the same (name, value) items,
\* in whatever order the items are supplied, give equal requests and the
\* same cache key.
C12_KeyDeterminism ==
    ( /\ BothBuilt
      /\ built[1].api_key = built[2].api_key
      /\ built[1].path = built[2].path
      /\ Items(built[1].params) = Items(built[2].params) )
    => /\ built[1].request = built[2].request
       /\ built[1].cache_key = built[2].cache_key

\* {'a': 1, 'b': [1, 2]} and {'b': [1, 2], 'a': 1} on a gateway with an api key
C12_Witness ==
    /\ BothBuilt
    /\ built[1].api_key # <<>>
    /\ built[1].api_key = built[2].api_key
    /\ built[1].path = built[2].path
    /\ built[1].params = <<<<"a", PyInt(1)>>, <<"b", PyList(<<1, 2>>)>>>>
    /\ built[2].params = <<<<"b", PyList(<<1, 2>>)>>, <<"a", PyInt(1)>>>>
    /\ built[1].cache_key = built[2].cache_key

\* C13 as stated: key variance.  Two requests built by a gateway without api
\* key whose paths differ, or whose parameters differ in a name or in a
\* value, have different cache keys.
C13_KeyVariance ==
    ( /\ BothBuilt
      /\ built[1].api_key = <<>> /\ built[2].api_key = <<>>
      /\ \/ built[1].path # built[2].path
         \/ Items(built[1].params) # Items(built[2].params) )
    => built[1].cache_key # built[2].cache_key

\* the (name, cleaned value) pairs a call sends: the caller's items, the
\* gateway's api key taking the place of a keyID and vCode of the caller
SentPairs(call) ==
    LET own == {p \in Items(call.params) :
                   call.api_key = <<>> \/ p[1] \notin {"keyID", "vCode"}}
        cred == IF call.api_key = <<>> THEN {}
                ELSE {<<"keyID", call.api_key[1]>>, <<"vCode", call.api_key[2]>>}
    IN {<<p[1], _clean(p[2])>> : p \in own \cup cred}

\* C13, amended: two requests have the same cache key exactly when their
\* paths are equal and they send the same (name, cleaned value) pairs; values
\* that differ but are cleaned to the same str (1 and '1', [1, 2] and '1,2')
\* share a key.  (The builtin hash is taken to have no collisions.)
C13_KeyVarianceCleaned ==
    BothBuilt
    => ( built[1].cache_key = built[2].cache_key
         <=> /\ built[1].path = built[2].path
             /\ SentPairs(built[1]) = SentPairs(built[2]) )

\* {'a': 1} and {'a': 2} on the same path have different keys
C13_Witness ==
    /\ BothBuilt
    /\ built[1].api_key = <<>> /\ built[2].api_key = <<>>
    /\ built[1].path = built[2].path
    /\ built[1].params = <<<<"a", PyInt(1)>>>>
    /\ built[2].params = <<<<"a", PyInt(2)>>>>
    /\ built[1].cache_key # built[2].cache_key

\* the first call was made on a gateway with an api key, the second without,
\* with the same path and the same caller parameters
KeyedAndUnkeyed ==
    /\ BothBuilt
    /\ built[1].api_key # <<>>
    /\ built[2].api_key = <<>>
    /\ built[1].path = built[2].path
    /\ built[1].params = built[2].params

\* C14 as stated: credential separation.  For the same path and caller
\* parameters the request of a gateway with an api key and the request of a
\* gateway without have different cache keys.
C14_CredentialSeparation ==
    KeyedAndUnkeyed => built[1].cache_key # built[2].cache_key

\* the caller's parameters already hold the api key under keyID and vCode
CarriesKey(params, key) ==
    {<<"keyID", _clean(key[1])>>, <<"vCode", _clean(key[2])>>}
        \subseteq {<<p[1], _clean(p[2])>> : p \in Items(params)}

\* C14, amended: the two cache keys differ unless the caller's parameters
\* themselves hold the gateway's keyID and vCode.
C14_CredentialSeparationUnlessCarried ==
    (KeyedAndUnkeyed /\ ~CarriesKey(built[1].params, built[1].api_key))
    => built[1].cache_key # built[2].cache_key

\* api.get('foo/bar', {'a': [1, 2]}) with and without api key
C14_Witness ==
    /\ KeyedAndUnkeyed
    /\ built[1].params = <<<<"a", PyList(<<1, 2>>)>>>>
    /\ built[1].request.params =
         <<<<"a", <<"1", ",", "2">>>>, <<"keyID", <<"1">>>>,
           <<"vCode", <<"c", "o", "d", "e">>>>>>
    /\ built[2].request.params = <<<<"a", <<"1", ",", "2">>>>>>
    /\ built[1].cache_key # built[2].cache_key

\* the last operation was an API.get that handed a well-formed body to
\* process_response
Decoded == lastEvent.op = "API.get" /\ lastEvent.body \in DOMAIN Docs

\* C15: envelope outcome invariant.  For a well-formed body process_response
\* either returns a result whose result subtree is present or raises
\* APIError, nothing else; and when the body has both an error element and a
\* result element it raises APIError.
C15_EnvelopeOutcome ==
    Decoded
    => /\ \/ lastEvent.exc_type = "None" /\ lastEvent.result.result # None
          \/ lastEvent.exc_type = "APIError"
       /\ ( /\ Docs[lastEvent.body].error # NoElement
            /\ Docs[lastEvent.body].result # None )
          => lastEvent.exc_type = "APIError"

\* an API.get that missed the store failed below the application level: the
\* transport raised, or the body it gave is not XML
FailedBelow ==
    /\ lastEvent.op = "API.get"
    /\ lastEvent.value = None
    /\ lastEvent.exc_type \in {"URLError", "ParseError"}

\* C16: gateway failures below the application level leave no trace.  When
\* an API.get that found nothing in the store fails because the transport
\* raises or because the body is malformed, the exception reaches the caller
\* as raised, the transport was invoked exactly once, nothing is put and the
\* store has no entry for the key, and last_timestamps is as before; an
\* API.get for the same key that follows invokes the transport again.
C16_FailureLeavesNoTrace ==
    [][/\ FailedBelow'
          => /\ lastEvent'.propagated = lastEvent'.exc_type
             /\ Len(lastEvent'.sends) = 1
             /\ lastEvent'.puts = <<>>
             /\ lastPut' = lastPut
             /\ lastEvent'.key \notin DOMAIN cache'
             /\ last_timestamps' = last_timestamps
       /\ (FailedBelow /\ lastEvent'.op = "API.get"
                       /\ lastEvent'.key = lastEvent.key)
          => Len(lastEvent'.sends) = 1]_vars

\* a malformed body came back after an earlier call had recorded the
\* timestamps of test_xml; the entry that call stored has expired and is gone
C16_Witness ==
    /\ FailedBelow
    /\ lastEvent.exc_type = "ParseError"
    /\ lastEvent.propagated = "ParseError"
    /\ lastEvent.body = "bar"
    /\ Len(lastEvent.sends) = 1
    /\ lastEvent.key \notin DOMAIN cache
    /\ last_timestamps = Timestamps({10}, {11})
    /\ \E c \in lastPut : c.key = lastEvent.key /\ c.value = "test_xml"

\* the time a time element decodes to: None when it is missing, empty or
\* the 0001-01-01 sentinel
DecodedTime(text) == IF AbsentTime(text) THEN {} ELSE text

\* C17: last-seen timestamps.  After an API.get that decoded a body, fresh
\* or cached, result or error envelope, last_timestamps is the decoded
\* (currentTime, cachedUntil) of that body, also when the call raised.
C17_LastTimestamps ==
    Decoded
    => last_timestamps =
         Timestamps(DecodedTime(Docs[lastEvent.body].currentTime),
                    DecodedTime(Docs[lastEvent.body].cachedUntil))

\* a cached error envelope was replayed and its timestamps recorded
C17_Witness ==
    /\ Decoded
    /\ lastEvent.body = "error_xml"
    /\ lastEvent.value = "error_xml"
    /\ lastEvent.sends = <<>>
    /\ lastEvent.propagated = "APIError"
    /\ last_timestamps = Timestamps({10}, {12})

\* C20: application error contents.  When the body has an error element,
\* process_response raises an APIError whose code is the integer value of
\* the element's code attribute, whose message is the element's text without
\* the surrounding whitespace, and whose timestamp and expires are the
\* decoded currentTime and cachedUntil of the body.
C20_ErrorContents ==
    (Decoded /\ Docs[lastEvent.body].error # NoElement)
    => LET tree == Docs[lastEvent.body]
           error == The(tree.error)
       IN /\ lastEvent.exc_type = "APIError"
          /\ lastEvent.exc_value.message = strip(error.text)
          /\ lastEvent.exc_value.timestamp = DecodedTime(tree.currentTime)
          /\ lastEvent.exc_value.expires = DecodedTime(tree.cachedUntil)
          /\ lastEvent.exc_value.code = int(error.code)

\* thread t has run api.get to its end
ApiDone(t) == threads[t].op = "API.get" /\ threads[t].pc = "done"

\* the body carries both times, so that a duration is derived from it
HasTtl(body) ==
    /\ body \in DOMAIN Docs
    /\ ~AbsentTime(Docs[body].currentTime)
    /\ ~AbsentTime(Docs[body].cachedUntil)

\* both threads have run api.get for the same key; the dict held no
\* unexpired entry when either read it, and each thread's store lookup was
\* over before the other thread put
Raced ==
    \A t \in Threads : ApiDone(t) /\ ~threads[t].live /\ threads[t].early

\* C18: two concurrent API.get callers.  When both callers look the key up
\* before either commits, both miss and both invoke the transport, each
\* whose body carries a TTL puts it, and the store ends with exactly the
\* entry of the last put: that put's body with that put's expiration.
C18_LastWriterWins ==
    Raced
    => /\ \A t \in Threads : Len(threads[t].sends) = 1
       /\ \A t \in Threads :
             HasTtl(threads[t].ctx.value) => Len(threads[t].puts) = 1
       /\ \A c \in lastPut :
             c.by \in Threads
             => /\ c.key \in DOMAIN cache
                /\ cache[c.key] = [value |-> c.value,
                                   expiration |-> c.at + c.duration]

\* thread t ran cache.get while the other thread ran cache.put
GetBesidePut(t) ==
    /\ threads[t].op = "get"
    /\ \A u \in Threads \ {t} : threads[u].op = "put"

\* C19: get is atomic with respect to its expiry check.  A cache.get that
\* runs beside a cache.put on the same key never raises because the entry
\* vanished, and what its del statement removes is the expired entry it
\* read, never an unexpired entry put since.
C19_GetAtomic ==
    \A t \in Threads :
        GetBesidePut(t)
        => /\ threads[t].exc_type # "KeyError"
           /\ \A e \in threads[t].deleted :
                 e \in threads[t].result \/ e.expiration <= now

(***************************************************************************)
(* The gateway on the wire: with and without api key, over urllib2 and     *)
(* over requests, the network answering or failing as each library has it. *)
(***************************************************************************)
InitWire == Init /\ api_base_url = DefaultBaseUrl

\* urlopen raises URLError, or HTTPError carrying a body, or answers
Urllib2Replies == {Reply("URLError", None)} \cup
                  {Reply("HTTPError", b) : b \in {"error_xml", "bar"}} \cup
                  {Reply("None", b) : b \in {"test_xml", "error_xml"}}

\* session.post / session.get raise RequestException or answer, whatever
\* the status of the response
RequestsReplies == {Reply("RequestException", None)} \cup
                   {Reply("None", b) : b \in {"test_xml", "error_xml"}}

NextWire ==
    \/ Tick
    \/ \E r \in Requests, dt \in Delays :
          \E reply \in IF _has_requests THEN RequestsReplies
                       ELSE Urllib2Replies :
              ApiGet(r, reply, dt)

SpecWire == InitWire /\ [][NextWire]_vars

\* C21: method selection.  When API.get invokes the transport, the call is a
\* POST whose body is the url-encoded sorted parameters if the request has
\* parameters and a GET without body if it has none; a gateway with an
\* api_key therefore always POSTs.
C21_MethodSelection ==
    \A r \in Requests :
        ( /\ lastEvent.op = "API.get"
          /\ lastEvent.key = KeyOf(r)
          /\ lastEvent.sends # <<>> )
        => LET request == from_api(api_key, api_base_url, r.path, r.params)
               call == lastEvent.sends[1]
           IN /\ Len(lastEvent.sends) = 1
              /\ call.url = absolute_url(request)
              /\ IF request.params # <<>>
                 THEN call.method = "POST"
                      /\ call.data = {encoded_params(request)}
                 ELSE call.method = "GET" /\ call.data = {}
              /\ api_key # <<>> => call.method = "POST"

(***************************************************************************)
(* Requests and what is logged of them: two calls of from_api, by gateways *)
(* whose api keys differ in the secret.                                    *)
(***************************************************************************)
LogKeys == ApiKeys \cup {<<PyInt(1), PyStr(<<"c">>)>>,
                         <<PyInt(1), PyStr(<<"e", "d", "o", "c">>)>>}

LogDicts == {<<>>} \cup {<<i>> : i \in ParamItems}

NextLog ==
    \E key \in LogKeys, params \in LogDicts : FromApi(key, "foo/bar", params)

SpecLog == InitNoKey /\ [][NextLog]_vars

\* C22: secret redaction.  What from_api logs of a request does not depend
\* on the vCode: two requests made for the same path and parameters by
\* gateways whose api keys differ only in the secret, of whatever length,
\* are logged with the same arguments.
C22_SecretRedaction ==
    ( /\ Len(built) = 2
      /\ built[1].api_key # <<>>
      /\ built[2].api_key # <<>>
      /\ built[1].api_key[1] = built[2].api_key[1]
      /\ built[1].path = built[2].path
      /\ built[1].params = built[2].params )
    => built[1].logged = built[2].logged

\* C30: the caller's parameters are not modified.  After from_api the dict
\* the caller supplied holds the items it held before the call, with the
\* values it held them with: the credentials of the gateway are not stored
\* into it.
C30_CallerParamsUnchanged ==
    \A i \in 1..Len(built) : built[i].params_after = built[i].params

(***************************************************************************)
(* One transaction object over its whole life: the caller may call sync    *)
(* itself and may keep the manager after a with-body has ended.            *)
(***************************************************************************)
NextTxn ==
    \/ Tick
    \/ CacheFor(KeyOf(ErrorRequest))
    \/ \E v \in SlotValues : SetValue(v)
    \/ \E d \in Durations : SetDuration(d)
    \/ Sync
    \/ ExitKept("None", NoError)
    \/ \E e \in BodyErrors : ExitKept("APIError", e)
    \/ ExitKept("RuntimeError", NoError)
    \/ ExitNormal

SpecTxn == InitNoKey /\ [][NextTxn]_vars

\* C23: at most one put in the life of a transaction.  Once a sync of the
\* manager has put its value, every later sync and every later end of a
\* with-body on that manager makes no put and leaves the store as it is,
\* whatever the caller assigned to value and duration in between; so the
\* manager never makes more than one put.
C23_SingleCommit ==
    /\ [][(lastEvent'.op \in {"sync", "exit"} /\ commits > 0)
          => /\ lastEvent'.puts = <<>>
             /\ cache' = cache
             /\ lastPut' = lastPut]_vars
    /\ [](commits <= 1)

\* the caller assigned a new value and a new duration after the commit of
\* "bar" and called sync again
C23_Witness ==
    /\ lastEvent.op = "sync"
    /\ commits = 1
    /\ lastEvent.pre._old_value = "bar"
    /\ lastEvent.pre.value = "baz"
    /\ lastEvent.pre.duration = {MaxDuration}
    /\ lastEvent.puts = <<>>
    /\ \E c \in lastPut : c.value = "bar" /\ c.duration < MaxDuration
    /\ cache[lastEvent.key].value = "bar"

C25_ErrorWithoutMetadata ==
    ( /\ ClosedOnMiss
      /\ lastEvent.exc_type = "APIError"
      /\ (lastEvent.exc_value.timestamp = {} \/ lastEvent.exc_value.expires = {})
      /\ lastEvent.pre.value # None )
    => /\ lastEvent.propagated = "APIError"
       /\ lastEvent.post.duration = lastEvent.pre.duration
       /\ IF lastEvent.pre.duration = {}
          THEN /\ lastEvent.puts = <<>>
               /\ lastEvent.key \notin DOMAIN cache
          ELSE lastEvent.puts = <<PutOf(lastEvent.key, lastEvent.pre.value,
                                        The(lastEvent.pre.duration))>>

\* test_context_with_no_duration_in_APIError: raise APIError() after the
\* value was set
C25_Witness ==
    /\ ClosedOnMiss
    /\ lastEvent.exc_type = "APIError"
    /\ lastEvent.exc_value.timestamp = {}
    /\ lastEvent.exc_value.expires = {}
    /\ lastEvent.pre.value = "bar"
    /\ lastEvent.pre.duration = {}
    /\ lastEvent.puts = <<>>
    /\ Lookup(lastEvent.key) = None

\* C26: what the store holds when it is filled through API.get alone.  Every
\* stored body is well-formed and carries both currentTime and cachedUntil,
\* and an entry appears or changes only in an API.get for its key that
\* invoked the transport once and got that body from it; so a malformed body
\* and a body lacking either time are never stored.
C26_StoredBodies ==
    /\ [](\A k \in DOMAIN cache : HasTtl(cache[k].value))
    /\ [][\A k \in DOMAIN cache' :
            (k \notin DOMAIN cache \/ cache'[k] # cache[k])
            => /\ lastEvent'.op = "API.get"
               /\ lastEvent'.key = k
               /\ Len(lastEvent'.sends) = 1
               /\ lastEvent'.sends[1].response = cache'[k].value
               /\ \E r \in Requests :
                     /\ KeyOf(r) = k
                     /\ lastEvent'.sends[1].path = r.path]_vars

\* both keys hold the body their request was answered with, an error
\* envelope among them; the last call stored the body the transport gave it
C26_Witness ==
    /\ DOMAIN cache = Keys
    /\ cache[KeyOf(BarRequest)].value = "error_xml"
    /\ cache[KeyOf(ErrorRequest)].value = "test_xml"
    /\ lastEvent.op = "API.get"
    /\ lastEvent.key = KeyOf(ErrorRequest)
    /\ Len(lastEvent.sends) = 1
    /\ lastEvent.sends[1].response = "test_xml"
    /\ lastEvent.puts # <<>>

(***************************************************************************)
(* One key requested while the clock advances: the clock does not stop     *)
(* below MaxTime.                                                          *)
(***************************************************************************)
LifeReplies == {Reply("URLError", None)} \cup
               {Reply("None", b) : b \in {"test_xml", "error_xml",
                                          "zero_ttl_xml", "no_expiry_xml",
                                          "bar"}}

LifeGet ==
    \E reply \in LifeReplies, dt \in Delays : ApiGet(ErrorRequest, reply, dt)

NextLife == Tick \/ LifeGet

SpecLife == InitNoKey /\ [][NextLife]_vars /\ WF_vars(Tick)

\* the latest put was made at clock value t with duration d
PutAt(t, d) == \E c \in lastPut : c.at = t /\ c.duration = d

\* the store holds an entry whose life ends before the clock stops
Mortal ==
    /\ KeyOf(ErrorRequest) \in DOMAIN cache
    /\ cache[KeyOf(ErrorRequest)].expiration < MaxTime

\* C27: bounded lifetime.  An API.get that is answered from the store
\* returns a body that was put at some t with duration d, at a clock value
\* now <= t + d, and leaves the entry as it is, so hits do not extend its
\* life; and if the clock advances and API.get keeps being called for the
\* key, every entry is followed by an API.get that invokes the transport.
C27_BoundedLifetime ==
    /\ [][(lastEvent'.op = "API.get" /\ lastEvent'.value # None)
          => /\ \E c \in lastPut : /\ c.key = lastEvent'.key
                                   /\ c.value = lastEvent'.value
                                   /\ now <= c.at + c.duration
             /\ lastEvent'.sends = <<>>
             /\ cache' = cache
             /\ lastPut' = lastPut]_vars
    /\ []<><<lastEvent'.op = "API.get">>_vars
       => (Mortal ~> (lastEvent.op = "API.get" /\ lastEvent.sends # <<>>))

\* a hit at the last moment of the entry's life: put at 0 with duration 2,
\* returned at 2
C27_Witness ==
    /\ lastEvent.op = "API.get"
    /\ lastEvent.value = "error_xml"
    /\ lastEvent.sends = <<>>
    /\ PutAt(0, 2)
    /\ now = 2

\* C28: hit/miss consistency.  API.get invokes the transport exactly when
\* the store lookup gave nothing, which is when sync takes the transaction
\* for a miss; so a call that invoked the transport and decoded a body
\* carrying both times does not skip the commit of that body.
C28_HitMissConsistency ==
    lastEvent.op = "API.get"
    => /\ (lastEvent.sends # <<>>) <=> (lastEvent.value = None)
       /\ (lastEvent.sends # <<>> /\ HasTtl(lastEvent.body))
          => lastEvent.puts = <<PutOf(lastEvent.key, lastEvent.body,
                                      The(Docs[lastEvent.body].cachedUntil)
                                        - The(Docs[lastEvent.body].currentTime))>>

(***************************************************************************)
(* Gateways with different base_url over one store.                        *)
(***************************************************************************)
SharedReplies == {Reply("URLError", None)} \cup
                 {Reply("None", b) : b \in {"test_xml", "error_xml"}}

NextShared ==
    \/ Tick
    \/ \E b \in BaseUrls : UseGateway(b)
    \/ \E r \in Requests, reply \in SharedReplies, dt \in Delays :
          ApiGet(r, reply, dt)

SpecShared == InitNoKey /\ [][NextShared]_vars

\* C29: key scope.  The cache key of a request is made of CACHE_VERSION, the
\* path and the sorted cleaned parameters and of nothing else: it is the
\* same for every base_url.  So gateways with different base_url that share
\* a store use one entry per path and parameters: a body that a gateway put
\* is returned, while it lives, to an API.get of a gateway with another
\* base_url for the same path and parameters, which then sends nothing.
C29_KeyScope ==
    /\ [](\A b \in BaseUrls, r \in Requests :
             LET request == from_api(api_key, b, r.path, r.params)
             IN _cache_key(request) =
                  <<CACHE_VERSION, hash(<<r.path, request.params>>)>>)
    /\ [](DOMAIN cache \subseteq Keys)
    /\ [][\A c \in lastPut :
            ( /\ c.by = "API.get"
              /\ c.base_url # api_base_url
              /\ lastEvent'.op = "API.get"
              /\ lastEvent'.key = c.key
              /\ now <= c.at + c.duration )
            => /\ lastEvent'.sends = <<>>
               /\ lastEvent'.value = c.value
               /\ cache' = cache]_vars

\* the gateway for api.testeveonline.com is answered with the body that the
\* gateway for api.eveonline.com had fetched and put
C29_Witness ==
    /\ api_base_url = "api.testeveonline.com"
    /\ lastEvent.op = "API.get"
    /\ lastEvent.sends = <<>>
    /\ lastEvent.value = "test_xml"
    /\ \E c \in lastPut : /\ c.by = "API.get"
                          /\ c.base_url = DefaultBaseUrl
                          /\ c.key = lastEvent.key
                          /\ c.value = "test_xml"

====
